---- MODULE Spec2Model ----
(***************************************************************************)
(* A model of src/main.rs: the Update schedule of the player demo          *)
(* (player_controller, camera_controller) and the post-process render      *)
(* graph node (PostProcessNode::run).                                      *)
(*                                                                         *)
(* Numbers.  The program computes in f32.  Here every length is an integer *)
(* number of grid steps, PosDen steps to one world unit, every velocity a  *)
(* number of grid steps per second, and every frame time dt a number of    *)
(* DtDen-ths of a second.  A product that does not fall on the grid is     *)
(* rounded to the nearest grid point, as f32 rounds to the nearest         *)
(* representable value.                                                    *)
(***************************************************************************)
EXTENDS Integers, FiniteSets, Sequences

VARIABLES
    position,            \* the player's Position component (current, target, vertical_velocity)
    camera_translation,  \* Transform.translation of the camera entity
    keyboard_input,      \* ButtonInput<KeyCode> seen by the last player_controller run
    dt,                  \* time.delta_seconds() seen by the last player_controller run
    before,              \* the Position component as the last player_controller run found it
    ran,                 \* the systems of the Update schedule that have run in this frame
    last,                \* the system that ran last
    frame,               \* number of completed frames
    pipeline_ready,      \* PipelineCache holds the compiled post-process pipeline
    binding_ready,       \* ComponentUniforms<PostProcessSettings> has a binding
    main_texture,        \* which of the view target's two textures is the main texture
    textures,            \* what each of the two textures holds
    render_phase,        \* position of the render world in its frame
    render_frame,        \* number of frames rendered
    writes,              \* post_process_write() calls in this frame
    draws,               \* draw calls of the post-process pass in this frame
    flipped_to           \* destinations the main texture was flipped to in this frame

motion_vars == <<position, camera_translation, keyboard_input, dt, before, ran, last, frame>>
render_vars == <<pipeline_ready, binding_ready, main_texture, textures, render_phase,
                 render_frame, writes, draws, flipped_to>>
vars == <<motion_vars, render_vars>>

----------------------------------------------------------------------------
(* Bounds of the model *)

MaxFrames == 2
MaxDt == 2
MaxRenderFrames == 8
MaxHoldTicks == 60

----------------------------------------------------------------------------
(* Program constants and the number representation *)

PLAYER_SPEED == 3
JUMP_VELOCITY == 3
GRAVITY == -12

\* dt is counted in DtDen-ths of a second
DtDen == 6
\* lengths are counted in PosDen-ths of a world unit
PosDen == 3000

\* the blend factor 0.1 of both lerp calls, as LerpNum / LerpDen
LerpNum == 1
LerpDen == 10

\* position.target.y = 0.1 after a jump, as JumpOffsetNum / JumpOffsetDen
JumpOffsetNum == 1
JumpOffsetDen == 10

\* Vec3::new(position.current.x + 10.0, 7.0, position.current.z)
CameraOffsetX == 10
CameraHeight == 7

Abs(n) == IF n < 0 THEN -n ELSE n

\* n / d rounded to the nearest integer, halves away from zero
RoundDiv(n, d) ==
    IF n >= 0 THEN (2 * n + d) \div (2 * d)
              ELSE -((2 * (-n) + d) \div (2 * d))

\* a real constant c of the source, on the grid
Grid(c) == c * PosDen

\* rate * dt, for a rate in grid steps per second and dt in DtDen-ths of a second
TimesDt(rate, d) == RoundDiv(rate * d, DtDen)

Vec3(x, y, z) == [x |-> x, y |-> y, z |-> z]
ZERO == Vec3(0, 0, 0)
VAdd(a, b) == Vec3(a.x + b.x, a.y + b.y, a.z + b.z)
VSub(a, b) == Vec3(a.x - b.x, a.y - b.y, a.z - b.z)
VTimesDt(v, d) == Vec3(TimesDt(v.x, d), TimesDt(v.y, d), TimesDt(v.z, d))
VScale(v, num, den) ==
    Vec3(RoundDiv(v.x * num, den), RoundDiv(v.y * num, den), RoundDiv(v.z * num, den))

\* glam's Vec3::lerp: self + (rhs - self) * s
VLerp(a, b, num, den) == VAdd(a, VScale(VSub(b, a), num, den))

MoveKeys == {"KeyW", "KeyA", "KeyS", "KeyD"}

\* a ButtonInput<KeyCode>: the keys held down and the keys that went down this frame
ButtonInput(pressed, just_pressed) == [pressed |-> pressed, just_pressed |-> just_pressed]

----------------------------------------------------------------------------
(* player_controller, statement by statement *)

\* speed * dt times speed * dt, in world units, on the grid
TimesDtTwice(rate, d) == RoundDiv(TimesDt(rate, d) * TimesDt(rate, d), PosDen)

\* a variant that scales each key's direction by PLAYER_SPEED * dt twice
MoveScaledTwice(p, pressed, d) ==
    LET step == TimesDtTwice(Grid(PLAYER_SPEED), d)
        w == IF "KeyW" \in pressed THEN VAdd(p.target, Vec3(-step, 0, 0)) ELSE p.target
        a == IF "KeyA" \in pressed THEN VAdd(w, Vec3(0, 0, step)) ELSE w
        s == IF "KeyS" \in pressed THEN VAdd(a, Vec3(step, 0, 0)) ELSE a
        dd == IF "KeyD" \in pressed THEN VAdd(s, Vec3(0, 0, -step)) ELSE s
    IN  [p EXCEPT !.target = dd]

\* the four  if keyboard_input.pressed(..) { position.target += .. * dt }  statements
Move(p, pressed, d) ==
    LET w == IF "KeyW" \in pressed
             THEN VAdd(p.target, VTimesDt(Vec3(-Grid(PLAYER_SPEED), 0, 0), d)) ELSE p.target
        a == IF "KeyA" \in pressed
             THEN VAdd(w, VTimesDt(Vec3(0, 0, Grid(PLAYER_SPEED)), d)) ELSE w
        s == IF "KeyS" \in pressed
             THEN VAdd(a, VTimesDt(Vec3(Grid(PLAYER_SPEED), 0, 0), d)) ELSE a
        dd == IF "KeyD" \in pressed
              THEN VAdd(s, VTimesDt(Vec3(0, 0, -Grid(PLAYER_SPEED)), d)) ELSE s
    IN  [p EXCEPT !.target = dd]

\* a variant that steps away from the target
SmoothAway(p) == [p EXCEPT !.current = VLerp(p.current, p.target, -LerpNum, LerpDen)]

\* position.current = position.current.lerp(position.target, 0.1)
Smooth(p) == [p EXCEPT !.current = VLerp(p.current, p.target, LerpNum, LerpDen)]

\* position.vertical_velocity += GRAVITY * dt;
\* position.target.y += position.vertical_velocity * dt
Integrate(p, d) ==
    LET v == p.vertical_velocity + TimesDt(Grid(GRAVITY), d)
    IN  [p EXCEPT !.vertical_velocity = v, !.target.y = p.target.y + TimesDt(v, d)]

\* if keyboard_input.just_pressed(KeyCode::Space) && position.target.y <= 0.0 { .. }
JumpTriggered(p, just_pressed) == "Space" \in just_pressed /\ p.target.y <= 0

\* a variant without the test of target.y
JumpAnywhere(p, just_pressed) ==
    IF "Space" \in just_pressed
    THEN [p EXCEPT !.vertical_velocity = Grid(JUMP_VELOCITY),
                   !.target.y = RoundDiv(Grid(JumpOffsetNum), JumpOffsetDen)]
    ELSE p

\* a variant that lifts the target and leaves the velocity as it was
JumpKeepsVelocity(p, just_pressed) ==
    IF JumpTriggered(p, just_pressed)
    THEN [p EXCEPT !.target.y = RoundDiv(Grid(JumpOffsetNum), JumpOffsetDen)]
    ELSE p

\* position.vertical_velocity = JUMP_VELOCITY; position.target.y = 0.1
Jump(p, just_pressed) ==
    IF JumpTriggered(p, just_pressed)
    THEN [p EXCEPT !.vertical_velocity = Grid(JUMP_VELOCITY),
                   !.target.y = RoundDiv(Grid(JumpOffsetNum), JumpOffsetDen)]
    ELSE p

\* a variant that leaves the velocity as it was
ClampKeepsVelocity(p) ==
    IF p.target.y < 0 THEN [p EXCEPT !.target.y = 0] ELSE p

\* if position.target.y < 0.0 { position.target.y = 0.0; position.vertical_velocity = 0.0 }
Clamp(p) ==
    IF p.target.y < 0
    THEN [p EXCEPT !.target.y = 0, !.vertical_velocity = 0]
    ELSE p

\* The statements run one after the other, each on the component the one before it
\* left: { F(x) : x \in {e} } is the one-element set {F(e)}, with e computed once.

\* the Position component after the statements up to and including the integration
AfterIntegrate(p, input, d) ==
    CHOOSE integrated \in
        { Integrate(smoothed, d) : smoothed \in
            { Smooth(moved) : moved \in { Move(p, input.pressed, d) } } } : TRUE

\* the body of the for loop of player_controller
player_controller(p, input, d) ==
    CHOOSE done \in
        { Smooth(clamped) : clamped \in
            { Clamp(jumped) : jumped \in
                { Jump(integrated, input.just_pressed) :
                    integrated \in { AfterIntegrate(p, input, d) } } } } : TRUE

----------------------------------------------------------------------------
(* camera_controller *)

\* a variant that adds the height to the player's
CameraFollowsHeight(current) ==
    Vec3(current.x + Grid(CameraOffsetX), current.y + Grid(CameraHeight), current.z)

\* camera_transform.translation = Vec3::new(position.current.x + 10.0, 7.0, position.current.z)
camera_controller(current) ==
    Vec3(current.x + Grid(CameraOffsetX), Grid(CameraHeight), current.z)

AllSystems == {"player_controller", "camera_controller"}

----------------------------------------------------------------------------
(* The initial state: the world after setup_scene and PostProcessPlugin::finish *)

\* PlayerBundle::new
NewPosition == [current |-> ZERO, target |-> ZERO, vertical_velocity |-> 0]

\* Transform::from_xyz(10.0, 5.0, 0.0) of the Camera3dBundle
InitialCamera == Vec3(Grid(10), Grid(5), 0)

\* what a texture of the view target holds: nothing, the scene of a frame, or the
\* post-processed scene of a frame
Cleared == [kind |-> "cleared", frame |-> 0]
Scene(n) == [kind |-> "scene", frame |-> n]
PostProcessed(t) == [kind |-> "post_processed", frame |-> t.frame]

Init ==
    /\ position = NewPosition
    /\ camera_translation = InitialCamera
    /\ keyboard_input = ButtonInput({}, {})
    /\ dt = 0
    /\ before = NewPosition
    /\ ran = {}
    /\ last = "setup_scene"
    /\ frame = 0
    /\ pipeline_ready = FALSE
    /\ binding_ready = FALSE
    /\ main_texture = 0
    /\ textures = [i \in {0, 1} |-> Cleared]
    /\ render_phase = "prepare"
    /\ render_frame = 0
    /\ writes = 0
    /\ draws = {}
    /\ flipped_to = {}

----------------------------------------------------------------------------
(* The Update schedule.  main adds player_controller and camera_controller  *)
(* as a tuple without .chain(), .before() or .after(): both run once in     *)
(* every frame, one at a time (both access Position), in an order the       *)
(* schedule does not fix.                                                   *)

\* one run of player_controller with the given keyboard state and frame time
Tick(input, d) ==
    /\ keyboard_input' = input
    /\ dt' = d
    /\ before' = position
    /\ position' = player_controller(position, input, d)
    /\ last' = "player_controller"

PlayerControllerSystem ==
    /\ frame < MaxFrames
    /\ "player_controller" \notin ran
    /\ \E pressed \in SUBSET MoveKeys, just_pressed \in SUBSET {"Space"}, d \in 0..MaxDt :
           Tick(ButtonInput(pressed \cup just_pressed, just_pressed), d)
    /\ ran' = ran \cup {"player_controller"}
    /\ UNCHANGED <<camera_translation, frame, render_vars>>

\* if let Ok(position) = player_query.get_single(): there is one Position entity
CameraControllerSystem ==
    /\ frame < MaxFrames
    /\ "camera_controller" \notin ran
    /\ camera_translation' = camera_controller(position.current)
    /\ ran' = ran \cup {"camera_controller"}
    /\ last' = "camera_controller"
    /\ UNCHANGED <<position, keyboard_input, dt, before, frame, render_vars>>

EndFrame ==
    /\ ran = AllSystems
    /\ ran' = {}
    /\ frame' = frame + 1
    /\ UNCHANGED <<position, camera_translation, keyboard_input, dt, before, last, render_vars>>

Next == PlayerControllerSystem \/ CameraControllerSystem \/ EndFrame

Spec == Init /\ [][Next]_vars

----------------------------------------------------------------------------
(* Properties of the Update schedule, checked under Spec *)

\* the state right after a run of player_controller: before, keyboard_input and dt
\* are what that run found
PlayerRan == last = "player_controller"

\* the Position component of the last run after its integration statements, which is
\* what the jump test and the ground clamp read
Integrated == AfterIntegrate(before, keyboard_input, dt)

\* the keyboard state of the last run without the press of the jump key
WithoutJump == ButtonInput(keyboard_input.pressed \ {"Space"}, {})

\* squared length of the horizontal (x, z) part of a vector
HorizontalSq(v) == v.x * v.x + v.z * v.z

\* C1: target.y is never below 0, and a run whose integration takes target.y below 0
\* without triggering a jump ends with target.y = 0 and vertical_velocity = 0
C1_GroundClamp ==
    /\ position.target.y >= 0
    /\ (PlayerRan /\ Integrated.target.y < 0
                  /\ ~JumpTriggered(Integrated, keyboard_input.just_pressed))
           => (position.target.y = 0 /\ position.vertical_velocity = 0)

\* a fall from the air that the clamp stops at the ground
C1_Witness ==
    /\ PlayerRan /\ dt > 0
    /\ before.target.y > 0
    /\ Integrated.target.y < 0
    /\ keyboard_input.just_pressed = {}

\* C2 as stated: a run that begins with target.y > 0 ends the same with and without
\* a just-pressed jump key
C2_NoJumpWhenStartingAirborne ==
    (PlayerRan /\ before.target.y > 0 /\ "Space" \in keyboard_input.just_pressed)
        => position = player_controller(before, WithoutJump, dt)

\* C2 amended: a run in which target.y is still > 0 after the integration ends the
\* same with and without a just-pressed jump key
C2_NoJumpWhileAirborne ==
    (PlayerRan /\ Integrated.target.y > 0 /\ "Space" \in keyboard_input.just_pressed)
        => position = player_controller(before, WithoutJump, dt)

\* the jump key pressed in the air, in a frame of positive length
C2_Witness ==
    /\ PlayerRan /\ dt > 0
    /\ before.target.y > 0
    /\ Integrated.target.y > 0
    /\ "Space" \in keyboard_input.just_pressed

\* C3 as stated: a run with dt <= 0 leaves the Position component as it found it
C3_NoOpWithoutTime ==
    (PlayerRan /\ dt <= 0) => position = before

C6_CameraSeesThisFrame ==
    (ran = AllSystems) => camera_translation = camera_controller(position.current)

\* C8 as stated: a run with dt > 0 and no key pressed does not widen the gap between
\* current and target on any axis
C8_GapNeverWidens ==
    (PlayerRan /\ dt > 0 /\ keyboard_input.pressed = {})
        => /\ Abs(position.target.x - position.current.x) <= Abs(before.target.x - before.current.x)
           /\ Abs(position.target.y - position.current.y) <= Abs(before.target.y - before.current.y)
           /\ Abs(position.target.z - position.current.z) <= Abs(before.target.z - before.current.z)

\* C8 amended: such a run does not widen the gap on the x and z axes, nor on the y
\* axis when it leaves target.y as it was
C8_GapNeverWidensWhereTargetStays ==
    (PlayerRan /\ dt > 0 /\ keyboard_input.pressed = {})
        => /\ Abs(position.target.x - position.current.x) <= Abs(before.target.x - before.current.x)
           /\ Abs(position.target.z - position.current.z) <= Abs(before.target.z - before.current.z)
           /\ (position.target.y = before.target.y
                  => Abs(position.target.y - position.current.y)
                         <= Abs(before.target.y - before.current.y))

\* a run without keys for a player in the air whose current position lags the target
C8_Witness ==
    /\ PlayerRan /\ dt > 0 /\ keyboard_input.pressed = {}
    /\ before.target.y > 0
    /\ before.current.x # before.target.x
    /\ Abs(position.target.x - position.current.x) < Abs(before.target.x - before.current.x)

\* C9 as stated: a run moves current by one lerp of factor 0.1 toward the final target
C9_OneLerpPerTick ==
    PlayerRan => position.current = VLerp(before.current, position.target, LerpNum, LerpDen)

\* C10 as stated: with two perpendicular movement keys held, the horizontal
\* displacement of target is as long as with one key held
C10_NoDiagonalBias ==
    (PlayerRan /\ dt > 0
        /\ keyboard_input.pressed \in {{"KeyW", "KeyA"}, {"KeyW", "KeyD"},
                                       {"KeyS", "KeyA"}, {"KeyS", "KeyD"}})
        => HorizontalSq(VSub(position.target, before.target))
               = HorizontalSq(VTimesDt(Vec3(Grid(PLAYER_SPEED), 0, 0), dt))

----------------------------------------------------------------------------
(* A jump followed frame by frame: player_controller alone, no movement key *)
(* held, every frame of a jump with the frame time of the frame that        *)
(* started it.  The app's run loop runs the Update schedule again and       *)
(* again, so a frame always follows.                                        *)

AtRest(p) == p.target.y = 0 /\ p.vertical_velocity = 0

\* a frame of positive length in which the jump key goes down while the player rests
JumpAtRest ==
    /\ AtRest(position)
    /\ \E d \in 1..MaxDt : Tick(ButtonInput({"Space"}, {"Space"}), d)
    /\ UNCHANGED <<camera_translation, ran, frame, render_vars>>

\* a following frame of the same length, without a press of the jump key
Coast ==
    /\ position.target.y > 0
    /\ Tick(ButtonInput({}, {}), dt)
    /\ UNCHANGED <<camera_translation, ran, frame, render_vars>>

NextArc == JumpAtRest \/ Coast

SpecArc == Init /\ [][NextArc]_vars /\ WF_vars(Coast)

\* the state right after the frame that started a jump from rest
JumpedFromRest ==
    /\ PlayerRan /\ dt > 0
    /\ AtRest(before)
    /\ "Space" \in keyboard_input.just_pressed

\* the state right after a following frame in which target.y did not rise
CoastedWithoutRising ==
    /\ PlayerRan /\ ~JumpedFromRest
    /\ position.target.y > 0
    /\ position.target.y <= before.target.y

\* the frame time leaves the jump velocity positive after one frame of gravity
RisingFrameTime == Grid(JUMP_VELOCITY) + TimesDt(Grid(GRAVITY), dt) > 0

----------------------------------------------------------------------------
(* The render world: the view target, its two textures, and the post-process *)
(* node between the tonemapping node and the end of main-pass post-processing *)

\* PipelineCache finishes compiling the pipeline queued by PostProcessPipeline::from_world
PipelineCompiled ==
    /\ render_phase = "prepare"
    /\ ~pipeline_ready
    /\ pipeline_ready' = TRUE
    /\ UNCHANGED <<binding_ready, main_texture, textures, render_phase, render_frame,
                   writes, draws, flipped_to, motion_vars>>

\* UniformComponentPlugin writes the uniform buffer of the extracted settings
UniformsPrepared ==
    /\ render_phase = "prepare"
    /\ ~binding_ready
    /\ binding_ready' = TRUE
    /\ UNCHANGED <<pipeline_ready, main_texture, textures, render_phase, render_frame,
                   writes, draws, flipped_to, motion_vars>>

\* the nodes before PostProcessLabel have rendered the scene into the main texture
MainPass ==
    /\ render_phase = "prepare"
    /\ render_frame < MaxRenderFrames
    /\ textures' = [textures EXCEPT ![main_texture] = Scene(render_frame + 1)]
    /\ writes' = 0
    /\ draws' = {}
    /\ flipped_to' = {}
    /\ render_phase' = "post_process"
    /\ UNCHANGED <<pipeline_ready, binding_ready, main_texture, render_frame, motion_vars>>

\* view_target.post_process_write(): source is the main texture, destination the other
\* one, and the main texture is flipped to destination; then the pass draws the
\* fullscreen triangle, sampling source, into destination
WriteAndDraw ==
    LET source == main_texture
        destination == 1 - main_texture
    IN  /\ main_texture' = destination
        /\ writes' = writes + 1
        /\ flipped_to' = flipped_to \cup {destination}
        /\ draws' = draws \cup {[source |-> source, destination |-> destination]}
        /\ textures' = [textures EXCEPT ![destination] = PostProcessed(textures[source])]

\* a variant that starts the write before it looks for the pipeline and the binding
PostProcessNode_run_WriteFirst ==
    /\ render_phase = "post_process"
    /\ IF pipeline_ready /\ binding_ready
       THEN WriteAndDraw
       ELSE /\ main_texture' = 1 - main_texture
            /\ writes' = writes + 1
            /\ flipped_to' = flipped_to \cup {1 - main_texture}
            /\ UNCHANGED <<textures, draws>>
    /\ render_phase' = "present"
    /\ UNCHANGED <<pipeline_ready, binding_ready, render_frame, motion_vars>>

\* PostProcessNode::run: return Ok(()) without the pipeline, return Ok(()) without
\* the binding, else write and draw
PostProcessNode_run ==
    /\ render_phase = "post_process"
    /\ IF ~pipeline_ready
       THEN UNCHANGED <<main_texture, textures, writes, draws, flipped_to>>
       ELSE IF ~binding_ready
       THEN UNCHANGED <<main_texture, textures, writes, draws, flipped_to>>
       ELSE WriteAndDraw
    /\ render_phase' = "present"
    /\ UNCHANGED <<pipeline_ready, binding_ready, render_frame, motion_vars>>

\* the frame is shown and the next one begins
Present ==
    /\ render_phase = "present"
    /\ render_phase' = "prepare"
    /\ render_frame' = render_frame + 1
    /\ UNCHANGED <<pipeline_ready, binding_ready, main_texture, textures, writes, draws,
                   flipped_to, motion_vars>>

NextRender == PipelineCompiled \/ UniformsPrepared \/ MainPass \/ PostProcessNode_run \/ Present

SpecRender == Init /\ [][NextRender]_vars

\* C5: when the node has run in a frame without the pipeline or without the binding,
\* no write was started, nothing was drawn and the main texture still holds the scene
\* of the frame; with both, one write was started and one pass drew, from the texture
\* that held the scene into the texture that is now the main texture; and the main
\* texture was never flipped to a texture that was not drawn into
C5_ColdStartPassThrough ==
    /\ render_phase = "present" =>
          IF pipeline_ready /\ binding_ready
          THEN /\ writes = 1
               /\ draws = {[source |-> 1 - main_texture, destination |-> main_texture]}
               /\ textures[1 - main_texture] = Scene(render_frame + 1)
               /\ textures[main_texture] = PostProcessed(Scene(render_frame + 1))
          ELSE /\ writes = 0
               /\ draws = {}
               /\ flipped_to = {}
               /\ textures[main_texture] = Scene(render_frame + 1)
    /\ flipped_to \subseteq {d.destination : d \in draws}

\* the second frame is post-processed after the first passed through: the main
\* texture has been flipped once in all
C5_Witness ==
    /\ render_phase = "present"
    /\ render_frame = 1
    /\ pipeline_ready /\ binding_ready
    /\ writes = 1
    /\ main_texture = 1

----------------------------------------------------------------------------
(* The forward key held: player_controller alone, frame after frame, with   *)
(* KeyW and no other key down and the frame time of the first frame; frame  *)
(* counts the frames run.                                                   *)

HoldForward ==
    /\ frame < MaxHoldTicks
    /\ \E d \in (IF frame = 0 THEN 1..MaxDt ELSE {dt}) :
           Tick(ButtonInput({"KeyW"}, {}), d)
    /\ frame' = frame + 1
    /\ UNCHANGED <<camera_translation, ran, render_vars>>

NextHold == HoldForward

SpecHold == Init /\ [][NextHold]_vars

\* C11 as stated: a frame with only the forward key held moves target along the
\* forward axis (-x) by (PLAYER_SPEED * dt)^2, and after n such frames target is n
\* times that far along the forward axis and has not moved along z
C11_MovementScaledTwice ==
    /\ PlayerRan =>
          /\ before.target.x - position.target.x = TimesDtTwice(Grid(PLAYER_SPEED), dt)
          /\ position.target.z = before.target.z
    /\ position.target.x = -(frame * TimesDtTwice(Grid(PLAYER_SPEED), dt))
    /\ position.target.z = 0

\* C11 amended: a frame with only the forward key held moves target along the forward
\* axis (-x) by PLAYER_SPEED * dt, and after n such frames target is n times that far
\* along the forward axis and has not moved along z
C11_MovementScaledOnce ==
    /\ PlayerRan =>
          /\ before.target.x - position.target.x = TimesDt(Grid(PLAYER_SPEED), dt)
          /\ position.target.z = before.target.z
    /\ position.target.x = -(frame * TimesDt(Grid(PLAYER_SPEED), dt))
    /\ position.target.z = 0

\* the forward key has been held for 60 frames of a frame time for which
\* PLAYER_SPEED * dt and its square differ
C11_Witness ==
    /\ PlayerRan
    /\ frame = 60
    /\ keyboard_input.pressed = {"KeyW"}
    /\ TimesDt(Grid(PLAYER_SPEED), dt) # TimesDtTwice(Grid(PLAYER_SPEED), dt)
    /\ position.target.x < before.target.x

====
